---------------------------- MODULE Spec2Model ----------------------------
(***************************************************************************)
(* IP registry and reachability monitor (app.py).                          *)
(*                                                                         *)
(* Python strings whose content the code inspects (addresses, filters,     *)
(* metadata) are sequences of one-character strings, so that strip, split, *)
(* the address parser and the formatting of a network are computed rather  *)
(* than assumed.  Python's None is the value None below.                   *)
(***************************************************************************)
EXTENDS Integers, Sequences, FiniteSets, TLC

(***************************************************************************)
(* Bounds of the model.                                                    *)
(***************************************************************************)
\* rows the table may hold
MaxRows == 2
\* readings of the wall clock: 0 .. MaxClock
MaxClock == 1

(***************************************************************************)
(* Characters and strings.                                                 *)
(***************************************************************************)
None == <<"<None>">>

DigitChars == <<"0", "1", "2", "3", "4", "5", "6", "7", "8", "9">>
HexLower == <<"0", "1", "2", "3", "4", "5", "6", "7", "8", "9", "a", "b", "c", "d", "e", "f">>
HexUpper == <<"0", "1", "2", "3", "4", "5", "6", "7", "8", "9", "A", "B", "C", "D", "E", "F">>

Range(s) == {s[i] : i \in 1..Len(s)}
Digits == Range(DigitChars)
HexDigits == Range(HexLower) \cup Range(HexUpper)
Whitespace == {" ", "\t", "\n"}

DigitVal(c) == (CHOOSE i \in 1..Len(DigitChars) : DigitChars[i] = c) - 1
HexVal(c) == (CHOOSE i \in 1..Len(HexLower) : HexLower[i] = c \/ HexUpper[i] = c) - 1

SetMin(S) == CHOOSE x \in S : \A y \in S : x <= y
SetMax(S) == CHOOSE x \in S : \A y \in S : x >= y

\* str.strip().  (Here and below a set constructor binds an intermediate
\* value where the code assigns a local variable, so that it is computed
\* once.)
Strip(s) ==
    IF \A i \in 1..Len(s) : s[i] \in Whitespace THEN <<>>
    ELSE CHOOSE stripped \in
            {SubSeq(s, SetMin(keep), SetMax(keep)) :
                keep \in {{i \in 1..Len(s) : s[i] \notin Whitespace}}} : TRUE

\* str.split(sep) for a one-character separator
RECURSIVE Split(_, _)
Split(s, sep) ==
    IF \A j \in 1..Len(s) : s[j] # sep THEN <<s>>
    ELSE CHOOSE pieces \in
            {<<SubSeq(s, 1, i - 1)>> \o Split(rest, sep) :
                <<i, rest>> \in
                   {CHOOSE cut \in
                       {<<k, SubSeq(s, k + 1, Len(s))>> :
                           k \in {SetMin({j \in 1..Len(s) : s[j] = sep})}} : TRUE}} : TRUE

\* str.isdigit() on the ASCII alphabet of the model
IsDigit(s) == s # <<>> /\ \A i \in 1..Len(s) : s[i] \in Digits

\* str.endswith / str.startswith
EndsWith(s, suffix) ==
    Len(s) >= Len(suffix) /\ SubSeq(s, Len(s) - Len(suffix) + 1, Len(s)) = suffix
StartsWith(s, prefix) ==
    Len(s) >= Len(prefix) /\ SubSeq(s, 1, Len(prefix)) = prefix

\* int(s) for a string of decimal digits
RECURSIVE IntOf(_)
IntOf(s) ==
    IF s = <<>> THEN 0
    ELSE IntOf(SubSeq(s, 1, Len(s) - 1)) * 10 + DigitVal(s[Len(s)])

\* int(s, 16) for a string of hexadecimal digits
RECURSIVE IntOfHex(_)
IntOfHex(s) ==
    IF s = <<>> THEN 0
    ELSE IntOfHex(SubSeq(s, 1, Len(s) - 1)) * 16 + HexVal(s[Len(s)])

\* str(n) for n >= 0
RECURSIVE DecStr(_)
DecStr(n) ==
    IF n < 10 THEN <<DigitChars[n + 1]>>
    ELSE DecStr(n \div 10) \o <<DigitChars[(n % 10) + 1]>>

\* "%x" % n for n >= 0
RECURSIVE HexStr(_)
HexStr(n) ==
    IF n < 16 THEN <<HexLower[n + 1]>>
    ELSE HexStr(n \div 16) \o <<HexLower[(n % 16) + 1]>>

\* sep.join(parts)
RECURSIVE Join(_, _)
Join(parts, sep) ==
    IF Len(parts) = 0 THEN <<>>
    ELSE IF Len(parts) = 1 THEN parts[1]
    ELSE parts[1] \o <<sep>> \o Join(Tail(parts), sep)

(***************************************************************************)
(* ipaddress.ip_address, as is_valid_ip and infer_segment_24 use it.  The  *)
(* result is [version |-> 4, groups |-> four octets], [version |-> 6,      *)
(* groups |-> eight hextets] or ValueError.  The alphabet of the model has *)
(* no "%", so the scope-id syntax of IPv6 does not arise.                  *)
(***************************************************************************)
ValueError == [version |-> 0, groups |-> <<>>]

\* IPv4Address._parse_octet
OctetOk(s) ==
    /\ IsDigit(s)
    /\ Len(s) <= 3
    /\ (s = <<"0">> \/ s[1] # "0")
    /\ IntOf(s) <= 255

ParseIPv4(s) ==
    CHOOSE parsed \in
       {IF Len(octets) = 4 /\ \A i \in 1..4 : OctetOk(octets[i])
        THEN [version |-> 4, groups |-> [i \in 1..4 |-> IntOf(octets[i])]]
        ELSE ValueError :
           octets \in {Split(s, ".")}} : TRUE

\* IPv6Address._parse_hextet
HextetOk(s) ==
    /\ s # <<>>
    /\ Len(s) <= 4
    /\ \A i \in 1..Len(s) : s[i] \in HexDigits

\* IPv6Address._ip_int_from_string, its first lines: the parts between the
\* colons, a dotted quad at the end replaced by its two hextets; <<>> when
\* there are fewer than three parts or the quad is not an IPv4 address
HextetParts(s) ==
    CHOOSE parts \in
       {IF Len(raw) < 3 THEN <<>>
        ELSE IF "." \notin Range(raw[Len(raw)]) THEN raw
        ELSE CHOOSE replaced \in
                {IF v4.version # 4 THEN <<>>
                 ELSE SubSeq(raw, 1, Len(raw) - 1)
                      \o <<HexStr(v4.groups[1] * 256 + v4.groups[2]),
                           HexStr(v4.groups[3] * 256 + v4.groups[4])>> :
                    v4 \in {ParseIPv4(raw[Len(raw)])}} : TRUE :
           raw \in {Split(s, ":")}} : TRUE

\* IPv6Address._ip_int_from_string
ParseIPv6(s) ==
    CHOOSE parsed \in
       {LET n == Len(parts)
            gaps == {i \in 2..(n - 1) : parts[i] = <<>>}
            skip == SetMin(gaps)
            hi == IF parts[1] = <<>> THEN skip - 2 ELSE skip - 1
            lo == IF parts[n] = <<>> THEN n - skip - 1 ELSE n - skip
            lead == IF parts[1] = <<>> THEN 1 ELSE 0
            hiParts == SubSeq(parts, 1 + lead, lead + hi)
            loParts == SubSeq(parts, skip + 1, skip + lo)
            zeros == [i \in 1..(8 - (hi + lo)) |-> 0]
        IN  IF n < 3 THEN ValueError
            ELSE IF n > 9 THEN ValueError
            ELSE IF Cardinality(gaps) > 1 THEN ValueError
            ELSE IF gaps = {}
            THEN IF n = 8 /\ \A i \in 1..n : HextetOk(parts[i])
                 THEN [version |-> 6, groups |-> [i \in 1..8 |-> IntOfHex(parts[i])]]
                 ELSE ValueError
            ELSE IF parts[1] = <<>> /\ skip # 2 THEN ValueError
            ELSE IF parts[n] = <<>> /\ skip # n - 1 THEN ValueError
            ELSE IF 8 - (hi + lo) < 1 THEN ValueError
            ELSE IF /\ \A i \in 1..Len(hiParts) : HextetOk(hiParts[i])
                    /\ \A i \in 1..Len(loParts) : HextetOk(loParts[i])
            THEN [version |-> 6,
                  groups |-> [i \in 1..Len(hiParts) |-> IntOfHex(hiParts[i])]
                             \o zeros
                             \o [i \in 1..Len(loParts) |-> IntOfHex(loParts[i])]]
            ELSE ValueError :
           parts \in {HextetParts(s)}} : TRUE

\* ipaddress.ip_address: IPv4 first, then IPv6
IpAddress(s) ==
    CHOOSE parsed \in
       {IF v4.version = 4 THEN v4 ELSE ParseIPv6(s) : v4 \in {ParseIPv4(s)}} : TRUE

\* is_valid_ip with a pattern in place of the parser: four groups of digits,
\* or anything with a colon
is_valid_ip_by_shape(ip_value) ==
    LET s == Strip(ip_value)
        groups == Split(s, ".")
    IN  \/ Len(groups) = 4 /\ \A i \in 1..4 : IsDigit(groups[i])
        \/ ":" \in Range(s)

\* is_valid_ip
is_valid_ip(ip_value) == IpAddress(Strip(ip_value)).version # 0


(***************************************************************************)
(* ipaddress.ip_network(value, strict=False), as infer_segment_24 and      *)
(* normalize_segment_filter use it: [version, groups, prefixlen], or       *)
(* NetworkError.  Octets are masked one by one.                            *)
(***************************************************************************)
NetworkError == [version |-> 0, groups |-> <<>>, prefixlen |-> 0]

RECURSIVE Pow2(_)
Pow2(k) == IF k = 0 THEN 1 ELSE 2 * Pow2(k - 1)

\* the number of leading one bits of a netmask octet, or -1
OctetOnes(o) ==
    IF \E k \in 0..8 : o = 256 - Pow2(8 - k)
    THEN CHOOSE k \in 0..8 : o = 256 - Pow2(8 - k)
    ELSE -1

\* IPv4Network._prefix_from_ip_int on the four octets of a mask, or -1
PrefixFromMask(m) ==
    IF /\ \A i \in 1..4 : OctetOnes(m[i]) >= 0
       /\ \A i \in 1..3 : OctetOnes(m[i]) < 8 => OctetOnes(m[i + 1]) = 0
    THEN OctetOnes(m[1]) + OctetOnes(m[2]) + OctetOnes(m[3]) + OctetOnes(m[4])
    ELSE -1

\* IPv4Network._make_netmask: a prefix length, a netmask or a host mask
PrefixFromString(arg) ==
    IF IsDigit(arg) /\ IntOf(arg) <= 32 THEN IntOf(arg)
    ELSE CHOOSE prefixlen \in
            {IF m.version # 4 THEN -1
             ELSE IF PrefixFromMask(m.groups) >= 0 THEN PrefixFromMask(m.groups)
             ELSE PrefixFromMask([i \in 1..4 |-> 255 - m.groups[i]]) :
                m \in {ParseIPv4(arg)}} : TRUE

\* the bits of octet i (1..4) that a prefix of length p covers
CoveredBits(p, i) ==
    IF p >= 8 * i THEN 8 ELSE IF p <= 8 * (i - 1) THEN 0 ELSE p - 8 * (i - 1)

MaskOctet(o, k) == o - (o % Pow2(8 - k))

IpNetwork(value) ==
    CHOOSE network \in
       {IF Len(parts) > 2 THEN NetworkError
        ELSE CHOOSE made \in
                {LET a6 == ParseIPv6(parts[1])
                     p6 == IF Len(parts) = 1 THEN 128
                           ELSE IF IsDigit(parts[2]) /\ IntOf(parts[2]) <= 128
                           THEN IntOf(parts[2]) ELSE -1
                 IN  IF a4.version = 4 /\ p4 >= 0
                     THEN [version |-> 4,
                           groups |-> [i \in 1..4 |->
                                         MaskOctet(a4.groups[i], CoveredBits(p4, i))],
                           prefixlen |-> p4]
                     ELSE IF a6.version = 6 /\ p6 >= 0
                     THEN [version |-> 6, groups |-> a6.groups, prefixlen |-> p6]
                     ELSE NetworkError :
                    <<a4, p4>> \in
                       {<<ParseIPv4(parts[1]),
                          IF Len(parts) = 1 THEN 32 ELSE PrefixFromString(parts[2])>>}} : TRUE :
           parts \in {Split(value, "/")}} : TRUE

\* str() of an IPv4 network
NetworkStr(net) ==
    CHOOSE text \in
       {Join([i \in 1..4 |-> DecStr(n.groups[i])], ".") \o <<"/">> \o DecStr(n.prefixlen) :
           n \in {net}} : TRUE

THIRD_OCTET_PREFIX == <<"T", "H", "I", "R", "D", "_", "O", "C", "T", "E", "T", ":">>
SLASH_24 == <<"/", "2", "4">>
IPV6_MARK == <<"I", "P", "v", "6">>

\* infer_segment_24, for a string ip_address() accepts
infer_segment_24(ip_address) ==
    IF IpAddress(ip_address).version # 4 THEN IPV6_MARK
    ELSE NetworkStr(IpNetwork(ip_address \o SLASH_24))

\* normalize_segment_filter; raw_value is a string or None
normalize_segment_filter(raw_value) ==
    IF raw_value = None \/ raw_value = <<>> THEN None
    ELSE CHOOSE token \in
            {LET octet == Split(value, "/")[1]
                 network == IpNetwork(value)
             IN  IF value = <<>> THEN None
                 ELSE IF /\ EndsWith(value, SLASH_24)
                         /\ "." \notin Range(value)
                         /\ IsDigit(octet)
                         /\ IntOf(octet) <= 255
                 THEN THIRD_OCTET_PREFIX \o DecStr(IntOf(octet))
                 ELSE IF network.version = 4 /\ network.prefixlen = 24
                 THEN NetworkStr(network)
                 ELSE None :
                value \in {Strip(raw_value)}} : TRUE

(***************************************************************************)
(* The state: the ip_registry table, the process-wide lock, the stop       *)
(* event, the wall clock, and every thread's position and local variables. *)
(***************************************************************************)
VARIABLES
    table,       \* the rows of ip_registry, in insertion order (id = position)
    db_lock,     \* the thread that holds _db_lock, or "free"
    stop_event,  \* threading.Event of run()
    clock,       \* the wall clock _now_iso() reads
    pc,          \* where each thread is
    frame,       \* each thread's local variables (rows_before: for a probe
                 \* cycle, the number of rows there were when it was called)
    ret          \* what each thread's last call returned (or raised)

vars == <<table, db_lock, stop_event, clock, pc, frame, ret>>

Handlers == {"h1", "h2"}
Scheduler == "scheduler"
Threads == Handlers \cup {Scheduler}

HOST_TYPE_OPTIONS ==
    << <<"N", "O", "T", "E", "B", "O", "O", "K">>,
       <<"D", "E", "S", "K", "T", "O", "P">>,
       <<"S", "E", "R", "V", "E", "R">>,
       <<"I", "M", "P", "R", "E", "S", "O", "R", "A">>,
       <<"R", "O", "U", "T", "E", "R">>,
       <<"O", "T", "R", "O">> >>

OK == <<"O", "K">>
ERROR == <<"E", "R", "R", "O", "R">>
\* line 149, the text before the return code (its accented o written o)
PING_FAILED == <<"P", "i", "n", "g", " ", "f", "a", "l", "l", "i", "d", "o", " ", "c", "o", "n", " ", "c", "o", "d", "i", "g", "o", " ">>

\* the messages of the (bool, message) results
MSG_INVALID_IP == "La IP no es valida"
MSG_DUPLICATE == "La IP ya estaba registrada"
MSG_REGISTERED == "IP registrada correctamente"
MSG_BAD_TYPE == "Tipo de host invalido"
MSG_NOT_FOUND == "No existe la IP indicada"
MSG_UPDATED == "Host actualizado"

\* _now_iso: a fixed-width reading of the clock, so that the order of the
\* strings is the order of the readings
_now_iso == <<DigitChars[(clock \div 10) + 1], DigitChars[(clock % 10) + 1]>>

\* x or None
OrNone(x) == IF x = <<>> \/ x = None THEN None ELSE x

NoFrame ==
    [ip_address |-> None, alias |-> None, host_name |-> None, host_type |-> None,
     location |-> None, notes |-> None, segment_filter |-> None,
     rows |-> <<>>, row |-> 0, hostname |-> None, status |-> None, output |-> None,
     rows_before |-> 0]

NoRet == [op |-> "none", value |-> <<>>]

Init ==
    /\ table = <<>>
    /\ db_lock = "free"
    /\ stop_event = FALSE
    /\ clock = 0
    /\ pc = [t \in Threads |-> IF t = Scheduler THEN "scheduler_loop" ELSE "idle"]
    /\ frame = [t \in Threads |-> NoFrame]
    /\ ret = [t \in Threads |-> NoRet]

\* the row with this ip_address (ip_address is UNIQUE), as a set
RowsWithIp(tbl, ip) == {i \in 1..Len(tbl) : tbl[i].ip_address = ip}

\* a call returns to its caller: a request handler is free for the next
\* request, the scheduler goes on to wait out the interval
AfterCall(t) == IF t = Scheduler THEN "scheduler_wait" ELSE "idle"

\* entering the block without waiting for the lock to be free
AcquireWithoutWaiting(t) ==
    /\ pc[t] \in {"register_lock", "update_lock", "rows_lock", "row_lock",
                  "segments_lock", "ping_select_lock", "ping_update_lock"}
    /\ db_lock' = t
    /\ pc' = [pc EXCEPT ![t] =
                CASE pc[t] = "register_lock" -> "register_insert"
                  [] pc[t] = "update_lock" -> "update_body"
                  [] pc[t] = "rows_lock" -> "rows_select"
                  [] pc[t] = "row_lock" -> "row_select"
                  [] pc[t] = "segments_lock" -> "segments_select"
                  [] pc[t] = "ping_select_lock" -> "ping_select"
                  [] pc[t] = "ping_update_lock" -> "ping_update"]
    /\ UNCHANGED <<table, stop_event, clock, frame, ret>>

\* with _db_lock: entering the block
Acquire(t) ==
    /\ pc[t] \in {"register_lock", "update_lock", "rows_lock", "row_lock",
                  "segments_lock", "ping_select_lock", "ping_update_lock"}
    /\ db_lock = "free"
    /\ db_lock' = t
    /\ pc' = [pc EXCEPT ![t] =
                CASE pc[t] = "register_lock" -> "register_insert"
                  [] pc[t] = "update_lock" -> "update_body"
                  [] pc[t] = "rows_lock" -> "rows_select"
                  [] pc[t] = "row_lock" -> "row_select"
                  [] pc[t] = "segments_lock" -> "segments_select"
                  [] pc[t] = "ping_select_lock" -> "ping_select"
                  [] pc[t] = "ping_update_lock" -> "ping_update"]
    /\ UNCHANGED <<table, stop_event, clock, frame, ret>>

\* with _db_lock: leaving the block
Release(t) == IF db_lock = t THEN "free" ELSE db_lock

(***************************************************************************)
(* register_ip                                                             *)
(***************************************************************************)
\* registrations that have passed validation and will add a row
PendingInserts ==
    {t \in Threads : /\ pc[t] \in {"register_lock", "register_insert"}
                     /\ RowsWithIp(table, frame[t].ip_address) = {}}

NewRow(clean_ip, alias) ==
    [id |-> Len(table) + 1,
     ip_address |-> clean_ip,
     alias |-> IF alias = None \/ alias = <<>> THEN None ELSE Strip(alias),
     host_name |-> None, host_type |-> None, location |-> None, notes |-> None,
     hostname |-> None, last_ping_at |-> None, last_status |-> None,
     last_output |-> None,
     created_at |-> _now_iso]

\* lines 83-85: strip, validate, and return early on an invalid address
register_ip(t, ip_address, alias) ==
    LET clean_ip == Strip(ip_address)
    IN  /\ pc[t] = "idle"
        /\ ~stop_event
        /\ IF ~is_valid_ip(clean_ip)
           THEN /\ ret' = [ret EXCEPT ![t] =
                            [op |-> "register_ip", value |-> <<FALSE, MSG_INVALID_IP>>]]
                /\ UNCHANGED <<pc, frame>>
           ELSE /\ \/ RowsWithIp(table, clean_ip) # {}
                   \/ Len(table) + Cardinality(PendingInserts) < MaxRows
                /\ pc' = [pc EXCEPT ![t] = "register_lock"]
                /\ frame' = [frame EXCEPT ![t] =
                              [NoFrame EXCEPT !.ip_address = clean_ip, !.alias = alias]]
                /\ ret' = [ret EXCEPT ![t] = NoRet]
        /\ UNCHANGED <<table, db_lock, stop_event, clock>>

\* RegisterInsert on a table whose ip_address column is not UNIQUE
RegisterInsertNotUnique(t) ==
    /\ pc[t] = "register_insert"
    /\ table' = Append(table, NewRow(frame[t].ip_address, frame[t].alias))
    /\ ret' = [ret EXCEPT ![t] =
                [op |-> "register_ip", value |-> <<TRUE, MSG_REGISTERED>>]]
    /\ db_lock' = Release(t)
    /\ pc' = [pc EXCEPT ![t] = AfterCall(t)]
    /\ frame' = [frame EXCEPT ![t] = NoFrame]
    /\ UNCHANGED <<stop_event, clock>>

\* RegisterInsert as INSERT OR REPLACE: a second registration takes the
\* place of the row
RegisterInsertOrReplace(t) ==
    /\ pc[t] = "register_insert"
    /\ table' = IF RowsWithIp(table, frame[t].ip_address) # {}
                THEN [i \in 1..Len(table) |->
                        IF table[i].ip_address = frame[t].ip_address
                        THEN [NewRow(frame[t].ip_address, frame[t].alias)
                                EXCEPT !.id = table[i].id]
                        ELSE table[i]]
                ELSE Append(table, NewRow(frame[t].ip_address, frame[t].alias))
    /\ ret' = [ret EXCEPT ![t] =
                [op |-> "register_ip", value |-> <<TRUE, MSG_REGISTERED>>]]
    /\ db_lock' = Release(t)
    /\ pc' = [pc EXCEPT ![t] = AfterCall(t)]
    /\ frame' = [frame EXCEPT ![t] = NoFrame]
    /\ UNCHANGED <<stop_event, clock>>

\* lines 87-96: INSERT under the lock; the UNIQUE constraint raises
\* IntegrityError
RegisterInsert(t) ==
    /\ pc[t] = "register_insert"
    /\ IF RowsWithIp(table, frame[t].ip_address) # {}
       THEN /\ table' = table
            /\ ret' = [ret EXCEPT ![t] =
                        [op |-> "register_ip", value |-> <<FALSE, MSG_DUPLICATE>>]]
       ELSE /\ table' = Append(table, NewRow(frame[t].ip_address, frame[t].alias))
            /\ ret' = [ret EXCEPT ![t] =
                        [op |-> "register_ip", value |-> <<TRUE, MSG_REGISTERED>>]]
    /\ db_lock' = Release(t)
    /\ pc' = [pc EXCEPT ![t] = AfterCall(t)]
    /\ frame' = [frame EXCEPT ![t] = NoFrame]
    /\ UNCHANGED <<stop_event, clock>>

\* the wall clock advances
Tick ==
    /\ clock < MaxClock
    /\ clock' = clock + 1
    /\ UNCHANGED <<table, db_lock, stop_event, pc, frame, ret>>

(***************************************************************************)
(* update_host_details                                                     *)
(***************************************************************************)
\* update_host_details without the check of lines 107-108
update_host_details_unchecked(t, ip_address, host_name, host_type, location, notes, alias) ==
    /\ pc[t] = "idle"
    /\ ~stop_event
    /\ pc' = [pc EXCEPT ![t] = "update_lock"]
    /\ frame' = [frame EXCEPT ![t] =
                  [NoFrame EXCEPT !.ip_address = ip_address,
                                  !.host_name = host_name,
                                  !.host_type = host_type,
                                  !.location = location,
                                  !.notes = notes,
                                  !.alias = alias]]
    /\ ret' = [ret EXCEPT ![t] = NoRet]
    /\ UNCHANGED <<table, db_lock, stop_event, clock>>

\* update_host_details with the last option left out of the check of lines
\* 107-108
update_host_details_without_last(t, ip_address, host_name, host_type, location, notes, alias) ==
    /\ pc[t] = "idle"
    /\ ~stop_event
    /\ IF /\ host_type # <<>>
          /\ host_type \notin Range(SubSeq(HOST_TYPE_OPTIONS, 1, Len(HOST_TYPE_OPTIONS) - 1))
       THEN /\ ret' = [ret EXCEPT ![t] =
                        [op |-> "update_host_details", value |-> <<FALSE, MSG_BAD_TYPE>>]]
            /\ UNCHANGED <<pc, frame>>
       ELSE /\ pc' = [pc EXCEPT ![t] = "update_lock"]
            /\ frame' = [frame EXCEPT ![t] =
                          [NoFrame EXCEPT !.ip_address = ip_address,
                                          !.host_name = host_name,
                                          !.host_type = host_type,
                                          !.location = location,
                                          !.notes = notes,
                                          !.alias = alias]]
            /\ ret' = [ret EXCEPT ![t] = NoRet]
    /\ UNCHANGED <<table, db_lock, stop_event, clock>>

\* lines 107-108: the host type is checked before the table is touched
update_host_details(t, ip_address, host_name, host_type, location, notes, alias) ==
    /\ pc[t] = "idle"
    /\ ~stop_event
    /\ IF host_type # <<>> /\ host_type \notin Range(HOST_TYPE_OPTIONS)
       THEN /\ ret' = [ret EXCEPT ![t] =
                        [op |-> "update_host_details", value |-> <<FALSE, MSG_BAD_TYPE>>]]
            /\ UNCHANGED <<pc, frame>>
       ELSE /\ pc' = [pc EXCEPT ![t] = "update_lock"]
            /\ frame' = [frame EXCEPT ![t] =
                          [NoFrame EXCEPT !.ip_address = ip_address,
                                          !.host_name = host_name,
                                          !.host_type = host_type,
                                          !.location = location,
                                          !.notes = notes,
                                          !.alias = alias]]
            /\ ret' = [ret EXCEPT ![t] = NoRet]
    /\ UNCHANGED <<table, db_lock, stop_event, clock>>

\* the UPDATE statement storing the arguments as they come
UpdateDetailsRowRaw(row, f) ==
    [row EXCEPT !.alias = f.alias,
                !.host_name = f.host_name,
                !.host_type = f.host_type,
                !.location = f.location,
                !.notes = f.notes]

\* the UPDATE statement stamping the row with the time of the edit
UpdateDetailsRowStamping(row, f) ==
    [row EXCEPT !.alias = OrNone(Strip(f.alias)),
                !.host_name = OrNone(Strip(f.host_name)),
                !.host_type = OrNone(Strip(f.host_type)),
                !.location = OrNone(Strip(f.location)),
                !.notes = OrNone(Strip(f.notes)),
                !.created_at = _now_iso]

\* lines 115-129: the UPDATE statement
UpdateDetailsRow(row, f) ==
    [row EXCEPT !.alias = OrNone(Strip(f.alias)),
                !.host_name = OrNone(Strip(f.host_name)),
                !.host_type = OrNone(Strip(f.host_type)),
                !.location = OrNone(Strip(f.location)),
                !.notes = OrNone(Strip(f.notes))]

\* UpdateBody without lines 111-113: the row is created when it is missing
UpdateBodyUpsert(t) ==
    /\ pc[t] = "update_body"
    /\ table' = IF RowsWithIp(table, frame[t].ip_address) = {}
                THEN Append(table, UpdateDetailsRow(NewRow(frame[t].ip_address, None),
                                                    frame[t]))
                ELSE [i \in 1..Len(table) |->
                        IF table[i].ip_address = frame[t].ip_address
                        THEN UpdateDetailsRow(table[i], frame[t])
                        ELSE table[i]]
    /\ ret' = [ret EXCEPT ![t] =
                [op |-> "update_host_details", value |-> <<TRUE, MSG_UPDATED>>]]
    /\ db_lock' = Release(t)
    /\ pc' = [pc EXCEPT ![t] = AfterCall(t)]
    /\ frame' = [frame EXCEPT ![t] = NoFrame]
    /\ UNCHANGED <<stop_event, clock>>

\* lines 110-131: SELECT the row, then UPDATE it, under the lock
UpdateBody(t) ==
    /\ pc[t] = "update_body"
    /\ IF RowsWithIp(table, frame[t].ip_address) = {}
       THEN /\ table' = table
            /\ ret' = [ret EXCEPT ![t] =
                        [op |-> "update_host_details", value |-> <<FALSE, MSG_NOT_FOUND>>]]
       ELSE /\ table' = [i \in 1..Len(table) |->
                            IF table[i].ip_address = frame[t].ip_address
                            THEN UpdateDetailsRow(table[i], frame[t])
                            ELSE table[i]]
            /\ ret' = [ret EXCEPT ![t] =
                        [op |-> "update_host_details", value |-> <<TRUE, MSG_UPDATED>>]]
    /\ db_lock' = Release(t)
    /\ pc' = [pc EXCEPT ![t] = AfterCall(t)]
    /\ frame' = [frame EXCEPT ![t] = NoFrame]
    /\ UNCHANGED <<stop_event, clock>>

(***************************************************************************)
(* get_ip_row                                                              *)
(***************************************************************************)
\* the columns get_ip_row and get_rows select
Selected(row) ==
    [ip_address |-> row.ip_address, alias |-> row.alias, host_name |-> row.host_name,
     host_type |-> row.host_type, location |-> row.location, notes |-> row.notes,
     hostname |-> row.hostname, last_ping_at |-> row.last_ping_at,
     last_status |-> row.last_status, last_output |-> row.last_output]

get_ip_row(t, ip_address) ==
    /\ pc[t] = "idle"
    /\ ~stop_event
    /\ pc' = [pc EXCEPT ![t] = "row_lock"]
    /\ frame' = [frame EXCEPT ![t] = [NoFrame EXCEPT !.ip_address = ip_address]]
    /\ ret' = [ret EXCEPT ![t] = NoRet]
    /\ UNCHANGED <<table, db_lock, stop_event, clock>>

\* lines 244-254: the result is a one-element sequence, or empty for None
RowSelect(t) ==
    /\ pc[t] = "row_select"
    /\ ret' = [ret EXCEPT ![t] =
                [op |-> "get_ip_row",
                 value |-> LET hit == RowsWithIp(table, frame[t].ip_address)
                           IN  IF hit = {} THEN <<>>
                               ELSE <<Selected(table[CHOOSE i \in hit : TRUE])>>]]
    /\ db_lock' = Release(t)
    /\ pc' = [pc EXCEPT ![t] = AfterCall(t)]
    /\ frame' = [frame EXCEPT ![t] = NoFrame]
    /\ UNCHANGED <<table, stop_event, clock>>

(***************************************************************************)
(* get_rows                                                                *)
(***************************************************************************)
\* the lexicographic order of strings over the characters of timestamps
\* and segments
CharOrder == <<".", "/", "0", "1", "2", "3", "4", "5", "6", "7", "8", "9", "I", "P", "v">>
CharRank(c) == CHOOSE i \in 1..Len(CharOrder) : CharOrder[i] = c

RECURSIVE StrLess(_, _)
StrLess(a, b) ==
    IF b = <<>> THEN FALSE
    ELSE IF a = <<>> THEN TRUE
    ELSE IF a[1] = b[1] THEN StrLess(Tail(a), Tail(b))
    ELSE CharRank(a[1]) < CharRank(b[1])

\* ORDER BY created_at DESC: the orders of the rows SQLite may return (rows
\* with equal created_at come in any order)
OrderedByCreatedDesc(tbl) ==
    {[i \in 1..Len(tbl) |-> tbl[p[i]]] : p \in
        {q \in Permutations(1..Len(tbl)) :
            \A i, j \in 1..Len(tbl) :
                i < j => ~StrLess(tbl[q[i]].created_at, tbl[q[j]].created_at)}}

\* the filter of lines 228-237 reading the second octet in place of the third
KeepsRowBySecondOctet(ip_address, segment, segment_filter) ==
    IF segment_filter = None \/ segment_filter = <<>> THEN TRUE
    ELSE IF StartsWith(segment_filter, THIRD_OCTET_PREFIX)
    THEN /\ segment # IPV6_MARK
         /\ IntOf(Split(ip_address, ".")[2])
              = IntOf(SubSeq(segment_filter, Len(THIRD_OCTET_PREFIX) + 1,
                             Len(segment_filter)))
    ELSE segment = segment_filter

\* lines 228-237: does the filter keep the row
KeepsRow(ip_address, segment, segment_filter) ==
    IF segment_filter = None \/ segment_filter = <<>> THEN TRUE
    ELSE IF StartsWith(segment_filter, THIRD_OCTET_PREFIX)
    THEN /\ segment # IPV6_MARK
         /\ IntOf(Split(ip_address, ".")[3])
              = IntOf(SubSeq(segment_filter, Len(THIRD_OCTET_PREFIX) + 1,
                             Len(segment_filter)))
    ELSE segment = segment_filter

\* lines 211-240: the rendering loop over the fetched rows
RECURSIVE RenderRows(_, _)
RenderRows(rows, segment_filter) ==
    IF rows = <<>> THEN <<>>
    ELSE LET row == Head(rows)
             segment == infer_segment_24(row.ip_address)
             current == [ip_address |-> row.ip_address, alias |-> row.alias,
                         host_name |-> row.host_name, host_type |-> row.host_type,
                         location |-> row.location, notes |-> row.notes,
                         hostname |-> row.hostname,
                         last_ping_at |-> row.last_ping_at,
                         last_status |-> row.last_status,
                         last_output |-> row.last_output,
                         segment |-> segment]
         IN  (IF KeepsRow(row.ip_address, segment, segment_filter)
              THEN <<current>> ELSE <<>>)
             \o RenderRows(Tail(rows), segment_filter)

get_rows(t, segment_filter) ==
    /\ pc[t] = "idle"
    /\ ~stop_event
    /\ pc' = [pc EXCEPT ![t] = "rows_lock"]
    /\ frame' = [frame EXCEPT ![t] = [NoFrame EXCEPT !.segment_filter = segment_filter]]
    /\ ret' = [ret EXCEPT ![t] = NoRet]
    /\ UNCHANGED <<table, db_lock, stop_event, clock>>

\* lines 202-240: SELECT under the lock, then render and filter
RowsSelect(t) ==
    /\ pc[t] = "rows_select"
    /\ \E rows \in OrderedByCreatedDesc(table) :
          ret' = [ret EXCEPT ![t] =
                    [op |-> "get_rows",
                     value |-> RenderRows(rows, frame[t].segment_filter)]]
    /\ db_lock' = Release(t)
    /\ pc' = [pc EXCEPT ![t] = AfterCall(t)]
    /\ frame' = [frame EXCEPT ![t] = NoFrame]
    /\ UNCHANGED <<table, stop_event, clock>>

(***************************************************************************)
(* get_available_segments                                                  *)
(***************************************************************************)
\* sorted(set): the ascending sequence of the strings of a set
RECURSIVE Sorted(_)
Sorted(S) ==
    IF S = {} THEN <<>>
    ELSE LET least == CHOOSE x \in S : \A y \in S : ~StrLess(y, x)
         IN  <<least>> \o Sorted(S \ {least})

get_available_segments(t) ==
    /\ pc[t] = "idle"
    /\ ~stop_event
    /\ pc' = [pc EXCEPT ![t] = "segments_lock"]
    /\ frame' = [frame EXCEPT ![t] = NoFrame]
    /\ ret' = [ret EXCEPT ![t] = NoRet]
    /\ UNCHANGED <<table, db_lock, stop_event, clock>>

\* lines 258-260
SegmentsSelect(t) ==
    /\ pc[t] = "segments_select"
    /\ ret' = [ret EXCEPT ![t] =
                [op |-> "get_available_segments",
                 value |-> Sorted({infer_segment_24(table[i].ip_address) :
                                      i \in 1..Len(table)})]]
    /\ db_lock' = Release(t)
    /\ pc' = [pc EXCEPT ![t] = AfterCall(t)]
    /\ frame' = [frame EXCEPT ![t] = NoFrame]
    /\ UNCHANGED <<table, stop_event, clock>>

(***************************************************************************)
(* ping_all_registered_ips, resolve_hostname, run_ping                     *)
(***************************************************************************)
\* POST /ping-now: a request handler runs one cycle inline
ping_all_registered_ips(t) ==
    /\ pc[t] = "idle"
    /\ ~stop_event
    /\ pc' = [pc EXCEPT ![t] = "ping_select_lock"]
    /\ frame' = [frame EXCEPT ![t] = [NoFrame EXCEPT !.rows_before = Len(table)]]
    /\ ret' = [ret EXCEPT ![t] = NoRet]
    /\ UNCHANGED <<table, db_lock, stop_event, clock>>

\* the SELECT with the for loop inside its with block: the lock is kept
PingSelectKeepingLock(t) ==
    /\ pc[t] = "ping_select"
    /\ frame' = [frame EXCEPT
                   ![t].rows = [i \in 1..Len(table) |->
                                  [id |-> table[i].id, ip_address |-> table[i].ip_address]],
                   ![t].row = 1]
    /\ pc' = [pc EXCEPT ![t] = "ping_next"]
    /\ UNCHANGED <<table, db_lock, stop_event, clock, ret>>

\* lines 153-154: SELECT id, ip_address of every row, under the lock
PingSelect(t) ==
    /\ pc[t] = "ping_select"
    /\ frame' = [frame EXCEPT
                   ![t].rows = [i \in 1..Len(table) |->
                                  [id |-> table[i].id, ip_address |-> table[i].ip_address]],
                   ![t].row = 1]
    /\ db_lock' = Release(t)
    /\ pc' = [pc EXCEPT ![t] = "ping_next"]
    /\ UNCHANGED <<table, stop_event, clock, ret>>

\* line 156, the loop is over: the call returns None
PingReturn(t) ==
    /\ pc[t] = "ping_next"
    /\ frame[t].row > Len(frame[t].rows)
    /\ pc' = [pc EXCEPT ![t] = AfterCall(t)]
    /\ frame' = [frame EXCEPT ![t] = NoFrame]
    /\ ret' = [ret EXCEPT ![t] =
                [op |-> "ping_all_registered_ips", value |-> <<"return">>]]
    /\ UNCHANGED <<table, db_lock, stop_event, clock>>

\* lines 134-139 at line 158: answer is the name the resolver gives, or None
\* when gethostbyaddr raises herror, gaierror or OSError
resolve_hostname(t, answer) ==
    /\ pc[t] = "ping_next"
    /\ frame[t].row <= Len(frame[t].rows)
    /\ frame' = [frame EXCEPT ![t].hostname = answer]
    /\ pc' = [pc EXCEPT ![t] = "ping_run"]
    /\ UNCHANGED <<table, db_lock, stop_event, clock, ret>>

\* lines 146-149: the result of a ping process that ran to its end
PingResult(proc) ==
    LET output == proc.stdout \o proc.stderr
    IN  IF proc.returncode = 0 THEN <<OK, Strip(output)>>
        ELSE <<ERROR, IF Strip(output) # <<>> THEN Strip(output)
                      ELSE PING_FAILED \o DecStr(proc.returncode)>>

\* the exception, if any, that leaves run_ping: subprocess.run raises
\* TimeoutExpired after 15 seconds and FileNotFoundError without a ping
\* binary, and lines 142-149 catch neither
RunPingRaises(proc) == IF proc.kind = "completed" THEN "" ELSE proc.kind

\* lines 142-149 at line 159.  An exception leaves ping_all_registered_ips
\* too: it ends the request of a handler and the thread of the scheduler
run_ping(t, proc) ==
    /\ pc[t] = "ping_run"
    /\ IF RunPingRaises(proc) = ""
       THEN /\ frame' = [frame EXCEPT ![t].status = PingResult(proc)[1],
                                      ![t].output = PingResult(proc)[2]]
            /\ pc' = [pc EXCEPT ![t] = "ping_update_lock"]
            /\ ret' = ret
       ELSE /\ frame' = [frame EXCEPT ![t] = NoFrame]
            /\ pc' = [pc EXCEPT ![t] = IF t = Scheduler THEN "crashed" ELSE "idle"]
            /\ ret' = [ret EXCEPT ![t] =
                        [op |-> "ping_all_registered_ips",
                         value |-> <<"raise", RunPingRaises(proc)>>]]
    /\ UNCHANGED <<table, db_lock, stop_event, clock>>

\* the result written with REPLACE INTO: the columns it does not name are
\* reset to NULL
UpdatePingRowReplacing(row, f) ==
    IF row.id = f.rows[f.row].id
    THEN [row EXCEPT !.hostname = f.hostname,
                     !.last_ping_at = _now_iso,
                     !.last_status = f.status,
                     !.last_output = f.output,
                     !.alias = None, !.host_name = None, !.host_type = None,
                     !.location = None, !.notes = None]
    ELSE row

\* the UPDATE statement without the last_output column
UpdatePingRowWithoutOutput(row, f) ==
    IF row.id = f.rows[f.row].id
    THEN [row EXCEPT !.hostname = f.hostname,
                     !.last_ping_at = _now_iso,
                     !.last_status = f.status]
    ELSE row

\* lines 161-168: the UPDATE statement, WHERE id = ?
UpdatePingRow(row, f) ==
    IF row.id = f.rows[f.row].id
    THEN [row EXCEPT !.hostname = f.hostname,
                     !.last_ping_at = _now_iso,
                     !.last_status = f.status,
                     !.last_output = f.output]
    ELSE row

\* lines 160-169: the result of one address is written under the lock
PingUpdate(t) ==
    /\ pc[t] = "ping_update"
    /\ table' = [i \in 1..Len(table) |-> UpdatePingRow(table[i], frame[t])]
    /\ db_lock' = Release(t)
    /\ frame' = [frame EXCEPT ![t].row = frame[t].row + 1,
                              ![t].hostname = None,
                              ![t].status = None,
                              ![t].output = None]
    /\ pc' = [pc EXCEPT ![t] = "ping_next"]
    /\ UNCHANGED <<stop_event, clock, ret>>

(***************************************************************************)
(* scheduler_loop and run                                                  *)
(***************************************************************************)
\* the top of a loop that does not look at the stop event (while True)
SchedulerLoopForever ==
    /\ pc[Scheduler] = "scheduler_loop"
    /\ pc' = [pc EXCEPT ![Scheduler] = "ping_select_lock"]
    /\ frame' = [frame EXCEPT ![Scheduler] =
                  [NoFrame EXCEPT !.rows_before = Len(table)]]
    /\ ret' = [ret EXCEPT ![Scheduler] = NoRet]
    /\ UNCHANGED <<table, db_lock, stop_event, clock>>

\* line 437-438: the top of the loop
SchedulerLoop ==
    /\ pc[Scheduler] = "scheduler_loop"
    /\ pc' = [pc EXCEPT ![Scheduler] =
                IF stop_event THEN "exited" ELSE "ping_select_lock"]
    /\ frame' = [frame EXCEPT ![Scheduler] =
                  IF stop_event THEN NoFrame
                  ELSE [NoFrame EXCEPT !.rows_before = Len(table)]]
    /\ ret' = [ret EXCEPT ![Scheduler] = NoRet]
    /\ UNCHANGED <<table, db_lock, stop_event, clock>>

\* line 439: stop_event.wait(PING_INTERVAL_SECONDS) returns, the event set
\* or the interval over
SchedulerWait ==
    /\ pc[Scheduler] = "scheduler_wait"
    /\ pc' = [pc EXCEPT ![Scheduler] = "scheduler_loop"]
    /\ UNCHANGED <<table, db_lock, stop_event, clock, frame, ret>>

\* line 453: run() sets the event when the server stops serving
Stop ==
    /\ ~stop_event
    /\ stop_event' = TRUE
    /\ UNCHANGED <<table, db_lock, clock, pc, frame, ret>>

(***************************************************************************)
(* The inputs of the operations.                                           *)
(***************************************************************************)
Ip_192_168_56_10 == <<"1", "9", "2", ".", "1", "6", "8", ".", "5", "6", ".", "1", "0">>
Ip_192_168_56_10_padded == <<" ", "1", "9", "2", ".", "1", "6", "8", ".", "5", "6", ".", "1", "0", "\n">>
Ip_192_168_59_20 == <<"1", "9", "2", ".", "1", "6", "8", ".", "5", "9", ".", "2", "0">>
Ip_loopback6 == <<":", ":", "1">>
Ip_loopback6_full == <<"0", ":", "0", ":", "0", ":", "0", ":", "0", ":", "0", ":", "0", ":", "1">>
Ip_mapped6 == <<":", ":", "f", "f", "f", "f", ":", "1", ".", "2", ".", "3", ".", "4">>
Bad_not_an_ip == <<"n", "o", "t", "-", "a", "n", "-", "i", "p">>
Bad_256 == <<"2", "5", "6", ".", "1", ".", "1", ".", "1">>
Bad_three_octets == <<"1", ".", "2", ".", "3">>
Bad_leading_zero == <<"0", "1", ".", "2", ".", "3", ".", "4">>
Bad_two_gaps == <<"1", ":", ":", "2", ":", ":", "3">>
Bad_long_hextet == <<"1", "2", "3", "4", "5", ":", ":">>
Bad_with_prefix == <<"1", "0", ".", "0", ".", "1", ".", "5", "5", "/", "2", "4">>
Bad_inner_space == <<"1", "0", ".", "0", " ", ".", "1", ".", "5", "5">>
Bad_blank == <<" ", "\t">>
F_56 == <<"5", "6", "/", "2", "4">>
F_056_padded == <<" ", "0", "5", "6", "/", "2", "4", " ">>
F_256 == <<"2", "5", "6", "/", "2", "4">>
F_5_6 == <<"5", "/", "6", "/", "2", "4">>
F_cidr59 == <<"1", "9", "2", ".", "1", "6", "8", ".", "5", "9", ".", "0", "/", "2", "4">>
F_host56 == <<"1", "9", "2", ".", "1", "6", "8", ".", "5", "6", ".", "7", "/", "2", "4">>
F_mask59 == <<"1", "9", "2", ".", "1", "6", "8", ".", "5", "9", ".", "0", "/", "2", "5", "5", ".", "2", "5", "5", ".", "2", "5", "5", ".", "0">>
F_cidr16 == <<"1", "9", "2", ".", "1", "6", "8", ".", "0", ".", "0", "/", "1", "6">>
F_v6 == <<":", ":", "/", "2", "4">>
F_junk == <<"n", "o", "t", "-", "a", "-", "f", "i", "l", "t", "e", "r">>
F_1 == <<"1", "/", "2", "4">>
F_3 == <<"3", "/", "2", "4">>
T_PRINTER == <<"P", "R", "I", "N", "T", "E", "R">>
T_OTHER == <<"O", "T", "H", "E", "R">>
T_INVALID == <<"I", "N", "V", "A", "L", "I", "D", "_", "T", "Y", "P", "E">>
T_NOTEBOOK_padded == <<" ", "N", "O", "T", "E", "B", "O", "O", "K">>
S_PABLO_padded == <<" ", "P", "A", "B", "L", "O", " ", "R", "I", "V", "E", "R", "O", "S", " ">>
S_INF == <<"I", "N", "F">>
S_srv_padded == <<"\t", "s", "r", "v", " ">>
S_notes == <<"E", "q", "u", "i", "p", "o", " ", "d", "e", " ", "p", "r", "u", "e", "b", "a", "s">>
S_gw == <<"g", "w", ".", "l", "a", "n">>
S_pong == <<"1", " ", "r", "e", "c", "e", "i", "v", "e", "d", "\n">>
S_lost == <<" ", "0", " ", "r", "e", "c", "e", "i", "v", "e", "d", "\n">>
S_unreachable == <<"u", "n", "r", "e", "a", "c", "h", "a", "b", "l", "e", "\n">>

ValidIps == {Ip_192_168_56_10, Ip_192_168_56_10_padded, Ip_192_168_59_20,
             Ip_loopback6, Ip_loopback6_full, Ip_mapped6}
InvalidIps == {<<>>, Bad_blank, Bad_not_an_ip, Bad_256, Bad_three_octets,
               Bad_leading_zero, Bad_two_gaps, Bad_long_hextet, Bad_with_prefix,
               Bad_inner_space}
Aliases == {<<>>, S_srv_padded}

\* the arguments (host_name, host_type, location, notes, alias) of an update
DetailArgs ==
    {<<S_PABLO_padded, HOST_TYPE_OPTIONS[1], S_INF, S_notes, S_srv_padded>>,
     <<<<>>, <<>>, Bad_blank, <<>>, <<>>>>,
     <<<<>>, HOST_TYPE_OPTIONS[4], <<>>, <<>>, <<>>>>,
     <<S_INF, T_INVALID, S_INF, S_INF, S_INF>>,
     <<S_INF, T_PRINTER, <<>>, <<>>, <<>>>>,
     <<S_INF, T_NOTEBOOK_padded, <<>>, <<>>, <<>>>>,
     <<S_INF, Bad_blank, <<>>, <<>>, <<>>>>}

RawFilters == {<<>>, Bad_blank, F_56, F_056_padded, F_256, F_5_6, F_1, F_3, F_cidr59,
               F_host56, F_mask59, F_cidr16, F_v6, F_junk}

\* what the resolver answers
Answers == {None, S_gw}

\* how a ping process ends
Procs ==
    {[kind |-> "completed", returncode |-> 0, stdout |-> S_pong, stderr |-> <<>>],
     [kind |-> "completed", returncode |-> 1, stdout |-> S_lost, stderr |-> <<>>],
     [kind |-> "completed", returncode |-> 2, stdout |-> <<>>, stderr |-> S_unreachable],
     [kind |-> "completed", returncode |-> 2, stdout |-> <<>>, stderr |-> <<>>],
     [kind |-> "TimeoutExpired", returncode |-> 0, stdout |-> <<>>, stderr |-> <<>>],
     [kind |-> "FileNotFoundError", returncode |-> 0, stdout |-> <<>>, stderr |-> <<>>]}

(***************************************************************************)
(* SpecValidate: one request handler registers every input, valid or not.  *)
(***************************************************************************)
ValidateIps == InvalidIps \cup {Ip_192_168_56_10_padded, Ip_loopback6}

NextValidate ==
    \/ \E ip \in ValidateIps, alias \in Aliases : register_ip("h1", ip, alias)
    \/ Acquire("h1")
    \/ RegisterInsert("h1")
    \/ Tick

SpecValidate == Init /\ [][NextValidate]_vars

(***************************************************************************)
(* SpecRegister: two request handlers register addresses concurrently.     *)
(***************************************************************************)
RaceIps == {Ip_192_168_56_10, Ip_192_168_56_10_padded, Ip_loopback6,
            Ip_loopback6_full, Bad_not_an_ip}

NextRegister ==
    \/ \E t \in Handlers, ip \in RaceIps : register_ip(t, ip, S_srv_padded)
    \/ \E t \in Handlers : Acquire(t)
    \/ \E t \in Handlers : RegisterInsert(t)
    \/ Tick

SpecRegister == Init /\ [][NextRegister]_vars

(***************************************************************************)
(* SpecMixed: one request handler registers and updates an address while   *)
(* the scheduler probes.                                                   *)
(***************************************************************************)
MixedIps == {Ip_192_168_56_10, Ip_192_168_56_10_padded, Ip_loopback6}
MixedDetails == {<<S_PABLO_padded, HOST_TYPE_OPTIONS[1], S_INF, <<>>, <<>>>>}
MixedProcs == {p \in Procs : p.returncode = 0 /\ p.kind \in {"completed", "TimeoutExpired"}}

NextMixed ==
    \/ \E ip \in MixedIps, alias \in Aliases : register_ip("h1", ip, alias)
    \/ \E ip \in MixedIps, d \in MixedDetails :
          update_host_details("h1", ip, d[1], d[2], d[3], d[4], d[5])
    \/ \E t \in {"h1", Scheduler} : Acquire(t)
    \/ RegisterInsert("h1")
    \/ UpdateBody("h1")
    \/ SchedulerLoop
    \/ PingSelect(Scheduler)
    \/ resolve_hostname(Scheduler, S_gw)
    \/ \E proc \in MixedProcs : run_ping(Scheduler, proc)
    \/ PingUpdate(Scheduler)
    \/ PingReturn(Scheduler)
    \/ SchedulerWait
    \/ Tick

SpecMixed == Init /\ [][NextMixed]_vars

(***************************************************************************)
(* SpecUpdate: two request handlers register addresses, update their       *)
(* details and look them up.                                               *)
(***************************************************************************)
UpdateIps == {Ip_192_168_56_10, Ip_192_168_56_10_padded, Ip_loopback6}

NextUpdate ==
    \/ \E t \in Handlers, ip \in {Ip_192_168_56_10, Ip_loopback6} :
          register_ip(t, ip, <<>>)
    \/ \E t \in Handlers, ip \in UpdateIps, d \in DetailArgs :
          update_host_details(t, ip, d[1], d[2], d[3], d[4], d[5])
    \/ \E t \in Handlers, ip \in UpdateIps : get_ip_row(t, ip)
    \/ \E t \in Handlers : Acquire(t)
    \/ \E t \in Handlers : RegisterInsert(t)
    \/ \E t \in Handlers : UpdateBody(t)
    \/ \E t \in Handlers : RowSelect(t)

SpecUpdate == Init /\ [][NextUpdate]_vars

(***************************************************************************)
(* SpecProbe: handler h2 registers addresses while handler h1 serves       *)
(* POST /ping-now requests, each running one probe cycle.                  *)
(***************************************************************************)
ProbeIps == {Ip_192_168_56_10, Ip_loopback6}

ProbeProcs == {p \in Procs : p.stderr = <<>>}

NextProbe ==
    \/ \E ip \in ProbeIps : register_ip("h2", ip, <<>>)
    \/ ping_all_registered_ips("h1")
    \/ \E t \in Handlers : Acquire(t)
    \/ RegisterInsert("h2")
    \/ PingSelect("h1")
    \/ \E answer \in Answers : resolve_hostname("h1", answer)
    \/ \E proc \in ProbeProcs : run_ping("h1", proc)
    \/ PingUpdate("h1")
    \/ PingReturn("h1")
    \/ Tick

SpecProbe == Init /\ [][NextProbe]_vars

(***************************************************************************)
(* SpecList: handler h1 registers addresses while handler h2 serves GET /  *)
(* requests, each listing the rows under the normalized segment filter.    *)
(***************************************************************************)
ListIps == {Ip_192_168_56_10, Ip_192_168_59_20, Ip_loopback6, Ip_mapped6}

\* line 368: the filter tokens the page passes to get_rows
ListFilters == {normalize_segment_filter(raw) : raw \in RawFilters}

NextList ==
    \/ \E ip \in ListIps : register_ip("h1", ip, <<>>)
    \/ \E segment_filter \in ListFilters : get_rows("h2", segment_filter)
    \/ \E t \in Handlers : Acquire(t)
    \/ RegisterInsert("h1")
    \/ RowsSelect("h2")
    \/ Tick

SpecList == Init /\ [][NextList]_vars

(***************************************************************************)
(* SpecStore: every operation of the store, from two request handlers and  *)
(* the scheduler thread, on one address.                                   *)
(***************************************************************************)
StoreDetails == <<S_PABLO_padded, HOST_TYPE_OPTIONS[1], S_INF, <<>>, <<>>>>

StoreProcs == {p \in Procs : p.kind = "completed" /\ p.returncode = 0}

NextStore ==
    \/ \E t \in Handlers : register_ip(t, Ip_192_168_56_10, <<>>)
    \/ \E t \in Handlers :
          update_host_details(t, Ip_192_168_56_10, StoreDetails[1], StoreDetails[2],
                              StoreDetails[3], StoreDetails[4], StoreDetails[5])
    \/ \E t \in Handlers : get_rows(t, None)
    \/ \E t \in Handlers : get_ip_row(t, Ip_192_168_56_10)
    \/ \E t \in Handlers : get_available_segments(t)
    \/ \E t \in Handlers : ping_all_registered_ips(t)
    \/ \E t \in Threads : Acquire(t)
    \/ \E t \in Handlers : RegisterInsert(t)
    \/ \E t \in Handlers : UpdateBody(t)
    \/ \E t \in Handlers : RowsSelect(t)
    \/ \E t \in Handlers : RowSelect(t)
    \/ \E t \in Handlers : SegmentsSelect(t)
    \/ SchedulerLoop
    \/ \E t \in Threads : PingSelect(t)
    \/ \E t \in Threads : resolve_hostname(t, S_gw)
    \/ \E t \in Threads, proc \in StoreProcs : run_ping(t, proc)
    \/ \E t \in Threads : PingUpdate(t)
    \/ \E t \in Threads : PingReturn(t)
    \/ SchedulerWait
    \/ Stop

SpecStore == Init /\ [][NextStore]_vars

(***************************************************************************)
(* SpecBusy: handler h1 serves register, edit, list and lookup requests    *)
(* while handler h2 serves POST /ping-now requests and the scheduler runs  *)
(* its cycles.  A step inside a with _db_lock block is always taken, and a *)
(* thread that finds the lock free again and again gets it; nothing is     *)
(* assumed of the name resolution and of the ping process, which may never *)
(* come to an end.                                                         *)
(***************************************************************************)
NextBusy ==
    \/ register_ip("h1", Ip_192_168_56_10, <<>>)
    \/ update_host_details("h1", Ip_192_168_56_10, StoreDetails[1], StoreDetails[2],
                           StoreDetails[3], StoreDetails[4], StoreDetails[5])
    \/ get_rows("h1", None)
    \/ get_ip_row("h1", Ip_192_168_56_10)
    \/ get_available_segments("h1")
    \/ ping_all_registered_ips("h2")
    \/ \E t \in Threads : Acquire(t)
    \/ RegisterInsert("h1")
    \/ UpdateBody("h1")
    \/ RowsSelect("h1")
    \/ RowSelect("h1")
    \/ SegmentsSelect("h1")
    \/ SchedulerLoop
    \/ \E t \in {"h2", Scheduler} : PingSelect(t)
    \/ \E t \in {"h2", Scheduler} : resolve_hostname(t, S_gw)
    \/ \E t \in {"h2", Scheduler}, proc \in StoreProcs : run_ping(t, proc)
    \/ \E t \in {"h2", Scheduler} : PingUpdate(t)
    \/ \E t \in {"h2", Scheduler} : PingReturn(t)
    \/ SchedulerWait
    \/ Stop

\* the steps inside the with _db_lock blocks, and the taking of the lock
FairStore ==
    /\ \A t \in Threads : SF_vars(Acquire(t))
    /\ WF_vars(RegisterInsert("h1"))
    /\ WF_vars(UpdateBody("h1"))
    /\ WF_vars(RowsSelect("h1"))
    /\ WF_vars(RowSelect("h1"))
    /\ WF_vars(SegmentsSelect("h1"))
    /\ \A t \in {"h2", Scheduler} : WF_vars(PingSelect(t)) /\ WF_vars(PingUpdate(t))

SpecBusy ==
    /\ Init
    /\ [][NextBusy]_vars
    /\ FairStore

(***************************************************************************)
(* SpecStop: the scheduler thread runs its cycles while handler h1         *)
(* registers addresses, and run() sets the stop event at some point.       *)
(* Every thread that can take a step of an operation it has begun takes it *)
(* (an operation ends, a free lock is taken, a ping process ends or is     *)
(* timed out), and a wait on an event that is set returns.  That the       *)
(* interval elapses is not assumed.                                        *)
(***************************************************************************)
StopIps == {Ip_192_168_56_10, Ip_loopback6}

StopProcs == {p \in Procs : p.returncode = 0}

NextStop ==
    \/ \E ip \in StopIps : register_ip("h1", ip, <<>>)
    \/ \E t \in {"h1", Scheduler} : Acquire(t)
    \/ RegisterInsert("h1")
    \/ SchedulerLoop
    \/ PingSelect(Scheduler)
    \/ resolve_hostname(Scheduler, S_gw)
    \/ \E proc \in StopProcs : run_ping(Scheduler, proc)
    \/ PingUpdate(Scheduler)
    \/ PingReturn(Scheduler)
    \/ SchedulerWait
    \/ Stop

\* the steps of operations under way
FairSteps ==
    /\ \A t \in {"h1", Scheduler} : WF_vars(Acquire(t))
    /\ WF_vars(RegisterInsert("h1"))
    /\ WF_vars(SchedulerLoop)
    /\ WF_vars(PingSelect(Scheduler))
    /\ WF_vars(resolve_hostname(Scheduler, S_gw))
    /\ WF_vars(\E proc \in StopProcs : run_ping(Scheduler, proc))
    /\ WF_vars(PingUpdate(Scheduler))
    /\ WF_vars(PingReturn(Scheduler))

SpecStop ==
    /\ Init
    /\ [][NextStop]_vars
    /\ FairSteps
    /\ WF_vars(stop_event /\ SchedulerWait)

(***************************************************************************)
(* SpecCycle: the steps of SpecStop, where moreover the interval of line   *)
(* 439 always comes to its end and the scheduler is not kept from the lock *)
(* for ever by the requests that take it again and again.                  *)
(***************************************************************************)
SpecCycle ==
    /\ Init
    /\ [][NextStop]_vars
    /\ FairSteps
    /\ WF_vars(SchedulerWait)
    /\ SF_vars(Acquire(Scheduler))

(***************************************************************************)
(* SpecTypes: handler h1 registers addresses and sets their host type to   *)
(* every option of the form and to other values.                           *)
(***************************************************************************)
TypeIps == {Ip_192_168_56_10, Ip_loopback6}

TypeArgs == Range(HOST_TYPE_OPTIONS) \cup {<<>>, T_PRINTER, T_OTHER, T_INVALID}

NextTypes ==
    \/ \E ip \in TypeIps : register_ip("h1", ip, <<>>)
    \/ \E ip \in TypeIps, host_type \in TypeArgs :
          update_host_details("h1", ip, S_INF, host_type, <<>>, <<>>, <<>>)
    \/ Acquire("h1")
    \/ RegisterInsert("h1")
    \/ UpdateBody("h1")

SpecTypes == Init /\ [][NextTypes]_vars

(***************************************************************************)
(* SpecWatch: handler h1 registers addresses and serves POST /ping-now     *)
(* while handler h2 lists the rows and looks one up.                       *)
(***************************************************************************)
WatchIps == {Ip_192_168_56_10, Ip_loopback6}

\* a ping that succeeds without any output, one that fails with output, and
\* one that is timed out
WatchProcs ==
    {[kind |-> "completed", returncode |-> 0, stdout |-> <<>>, stderr |-> <<>>],
     [kind |-> "completed", returncode |-> 1, stdout |-> S_lost, stderr |-> <<>>],
     [kind |-> "TimeoutExpired", returncode |-> 0, stdout |-> <<>>, stderr |-> <<>>]}

NextWatch ==
    \/ \E ip \in WatchIps : register_ip("h1", ip, <<>>)
    \/ ping_all_registered_ips("h1")
    \/ get_rows("h2", None)
    \/ get_ip_row("h2", Ip_192_168_56_10)
    \/ \E t \in Handlers : Acquire(t)
    \/ RegisterInsert("h1")
    \/ PingSelect("h1")
    \/ resolve_hostname("h1", S_gw)
    \/ \E proc \in WatchProcs : run_ping("h1", proc)
    \/ PingUpdate("h1")
    \/ PingReturn("h1")
    \/ RowsSelect("h2")
    \/ RowSelect("h2")
    \/ Tick

SpecWatch == Init /\ [][NextWatch]_vars

(***************************************************************************)
(* SpecOverlap: probe cycles that overlap.  Handler h1 registers an        *)
(* address and serves POST /ping-now requests, handler h2 serves POST      *)
(* /ping-now requests and the scheduler runs its cycles.  The host of the  *)
(* address answers the pings that end while the clock reads 0 and none     *)
(* that ends later, so that what a probe found tells when it completed: a  *)
(* probe that found the host down completed after every probe that found   *)
(* it up.                                                                  *)
(***************************************************************************)
OverlapIps == {Ip_192_168_56_10}

\* how a ping of the host ends at this time
OverlapProc ==
    IF clock = 0
    THEN [kind |-> "completed", returncode |-> 0, stdout |-> S_pong, stderr |-> <<>>]
    ELSE [kind |-> "completed", returncode |-> 1, stdout |-> S_lost, stderr |-> <<>>]

NextOverlap ==
    \/ \E ip \in OverlapIps : register_ip("h1", ip, <<>>)
    \/ \E t \in Handlers : ping_all_registered_ips(t)
    \/ \E t \in Threads : Acquire(t)
    \/ RegisterInsert("h1")
    \/ SchedulerLoop
    \/ \E t \in Threads : PingSelect(t)
    \/ \E t \in Threads : resolve_hostname(t, S_gw)
    \/ \E t \in Threads : run_ping(t, OverlapProc)
    \/ \E t \in Threads : PingUpdate(t)
    \/ \E t \in Threads : PingReturn(t)
    \/ SchedulerWait
    \/ Tick

SpecOverlap == Init /\ [][NextOverlap]_vars

(***************************************************************************)
(* The claims.                                                             *)
(***************************************************************************)
\* C1: for every input that is not an IPv4 or IPv6 literal once trimmed,
\* is_valid_ip is false, and a register_ip call with it returns the
\* invalid-address failure at once and changes nothing of the table.
InvalidIpsAreInvalid == \A s \in InvalidIps : ~is_valid_ip(s)

C1_InvalidAddressRejected ==
    [][/\ InvalidIpsAreInvalid
       /\ pc["h1"] = "idle" =>
             \A s \in InvalidIps, alias \in Aliases :
                register_ip("h1", s, alias) =>
                   /\ ret'["h1"] = [op |-> "register_ip",
                                    value |-> <<FALSE, MSG_INVALID_IP>>]
                   /\ table' = table
                   /\ pc'["h1"] = "idle"]_vars

\* C1 happens: an invalid address was refused while the table holds a row
C1_Witness ==
    /\ ret["h1"] = [op |-> "register_ip", value |-> <<FALSE, MSG_INVALID_IP>>]
    /\ Len(table) >= 1

\* the table of a state holds no ip_address twice, and only literals
UniqueAndValid(tbl) ==
    /\ \A i, j \in 1..Len(tbl) : tbl[i].ip_address = tbl[j].ip_address => i = j
    /\ \A i \in 1..Len(tbl) :
          /\ IpAddress(tbl[i].ip_address).version \in {4, 6}
          /\ tbl[i].ip_address \notin InvalidIps

\* C3: whatever the interleaving of register calls, no two rows have the same
\* ip_address and every stored ip_address is a valid literal; an INSERT
\* succeeds exactly when the address has no row yet, and after it, succeeded
\* or failed, the address has exactly one row.
C3_UniqueValidAddresses ==
    [][/\ UniqueAndValid(table')
       /\ \A t \in Handlers :
             pc[t] = "register_insert" /\ pc'[t] = "idle" =>
                /\ ret'[t].value[1] = (RowsWithIp(table, frame[t].ip_address) = {})
                /\ Cardinality(RowsWithIp(table', frame[t].ip_address)) = 1
                /\ Len(table') = Len(table) + (IF ret'[t].value[1] THEN 1 ELSE 0)]_vars

\* C3 happens: of two registrations, one succeeded and the other met the
\* UNIQUE constraint on the one row there is
C3_Witness ==
    /\ ret["h1"] = [op |-> "register_ip", value |-> <<TRUE, MSG_REGISTERED>>]
    /\ ret["h2"] = [op |-> "register_ip", value |-> <<FALSE, MSG_DUPLICATE>>]
    /\ Len(table) = 1

\* C2: a register_ip call for an address that has a row already (the
\* second registration of the address) ends with the duplicate failure, and
\* no step of that call changes the table, whatever updates and probe
\* results the row has received since it was inserted.
C2_DuplicateLeavesRecord ==
    [][\A t \in Handlers :
          /\ pc[t] = "idle" /\ pc'[t] = "register_lock"
             /\ RowsWithIp(table, frame'[t].ip_address) # {} => table' = table
          /\ pc[t] = "register_lock" /\ pc'[t] # pc[t]
             /\ RowsWithIp(table, frame[t].ip_address) # {} =>
                /\ table' = table
                /\ pc'[t] = "register_insert"
          /\ pc[t] = "register_insert" /\ pc'[t] # pc[t]
             /\ RowsWithIp(table, frame[t].ip_address) # {} =>
                /\ table' = table
                /\ pc'[t] = "idle"
                /\ ret'[t] = [op |-> "register_ip",
                              value |-> <<FALSE, MSG_DUPLICATE>>]]_vars

\* C2 happens: the second registration failed on a row that an update and a
\* probe have written since the first
C2_Witness ==
    /\ ret["h1"] = [op |-> "register_ip", value |-> <<FALSE, MSG_DUPLICATE>>]
    /\ Len(table) >= 1
    /\ table[1].host_name # None
    /\ table[1].last_status # None

\* C4: update_host_details with a host type that is not empty and not one of
\* HOST_TYPE_OPTIONS returns the bad-type failure at once and changes no row,
\* whether the address has a row or not.
C4_UnknownHostTypeRejected ==
    [][\A t \in Handlers :
          pc[t] = "idle" =>
             \A ip \in UpdateIps, d \in DetailArgs :
                (/\ d[2] # <<>>
                 /\ \A i \in 1..Len(HOST_TYPE_OPTIONS) : HOST_TYPE_OPTIONS[i] # d[2]
                 /\ update_host_details(t, ip, d[1], d[2], d[3], d[4], d[5]))
                => /\ ret'[t] = [op |-> "update_host_details",
                                 value |-> <<FALSE, MSG_BAD_TYPE>>]
                   /\ table' = table
                   /\ pc'[t] = "idle"]_vars

\* C4 happens: an update was refused for its host type while a row has
\* details
C4_Witness ==
    /\ ret["h1"] = [op |-> "update_host_details", value |-> <<FALSE, MSG_BAD_TYPE>>]
    /\ \E i \in 1..Len(table) : table[i].host_type # None

\* what an argument of update_host_details is stored as: trimmed, and NULL
\* when nothing is left
Stored(arg) == IF Strip(arg) = <<>> THEN None ELSE Strip(arg)

\* C5: update_host_details with an empty host type or one of
\* HOST_TYPE_OPTIONS is not refused, and on an address that has a row it
\* succeeds and sets the five details of that row, and nothing else in the
\* table, to the trimmed arguments (NULL for an empty one); get_ip_row
\* returns the stored columns of the row as they are.
C5_UpdateStoresTrimmedDetails ==
    [][\A t \in Handlers :
          /\ pc[t] = "idle" => \A ip \in UpdateIps, d \in DetailArgs :
                (/\ \/ d[2] = <<>>
                    \/ \E i \in 1..Len(HOST_TYPE_OPTIONS) : HOST_TYPE_OPTIONS[i] = d[2]
                 /\ update_host_details(t, ip, d[1], d[2], d[3], d[4], d[5]))
                => /\ pc'[t] = "update_lock"
                   /\ table' = table
          /\ pc[t] = "update_body" /\ pc'[t] # pc[t]
             /\ RowsWithIp(table, frame[t].ip_address) # {} =>
                /\ ret'[t] = [op |-> "update_host_details",
                              value |-> <<TRUE, MSG_UPDATED>>]
                /\ Len(table') = Len(table)
                /\ \A i \in 1..Len(table) :
                      table'[i] = IF table[i].ip_address = frame[t].ip_address
                                  THEN [table[i] EXCEPT
                                          !.alias = Stored(frame[t].alias),
                                          !.host_name = Stored(frame[t].host_name),
                                          !.host_type = Stored(frame[t].host_type),
                                          !.location = Stored(frame[t].location),
                                          !.notes = Stored(frame[t].notes)]
                                  ELSE table[i]
          /\ pc[t] = "row_select" /\ pc'[t] # pc[t] =>
                \A i \in RowsWithIp(table, frame[t].ip_address) :
                   /\ Len(ret'[t].value) = 1
                   /\ ret'[t].value[1].ip_address = frame[t].ip_address
                   /\ ret'[t].value[1].alias = table[i].alias
                   /\ ret'[t].value[1].host_name = table[i].host_name
                   /\ ret'[t].value[1].host_type = table[i].host_type
                   /\ ret'[t].value[1].location = table[i].location
                   /\ ret'[t].value[1].notes = table[i].notes]_vars

\* C5 happens: a lookup returned details that an update stored trimmed, and
\* a row holds NULL where an update gave blanks
C5_Witness ==
    /\ ret["h1"].op = "get_ip_row"
    /\ Len(ret["h1"].value) = 1
    /\ ret["h1"].value[1].host_name = Strip(S_PABLO_padded)
    /\ ret["h1"].value[1].alias = Strip(S_srv_padded)
    /\ ret["h1"].value[1].host_type = HOST_TYPE_OPTIONS[1]
    /\ ret["h2"] = [op |-> "update_host_details", value |-> <<TRUE, MSG_UPDATED>>]
    /\ \E i \in 1..Len(table) : table[i].location = None /\ table[i].host_type # None

\* C6: update_host_details on an address that has no row returns the
\* not-found failure and changes nothing of the table (no row is added);
\* get_ip_row returns None for an address that has no row.
C6_UpdateOfMissingAddress ==
    [][\A t \in Handlers :
          /\ pc[t] = "update_body" /\ pc'[t] # pc[t]
             /\ RowsWithIp(table, frame[t].ip_address) = {} =>
                /\ ret'[t] = [op |-> "update_host_details",
                              value |-> <<FALSE, MSG_NOT_FOUND>>]
                /\ table' = table
          /\ pc[t] = "row_select" /\ pc'[t] # pc[t]
             /\ RowsWithIp(table, frame[t].ip_address) = {} =>
                /\ ret'[t] = [op |-> "get_ip_row", value |-> <<>>]
                /\ table' = table]_vars

\* C6 happens: an update found no row, a lookup found none either, and the
\* table holds other rows
C6_Witness ==
    /\ ret["h1"] = [op |-> "update_host_details", value |-> <<FALSE, MSG_NOT_FOUND>>]
    /\ ret["h2"] = [op |-> "get_ip_row", value |-> <<>>]
    /\ Len(table) >= 1

\* a thread is inside a probe cycle: ping_all_registered_ips has been called
\* and has neither returned nor raised
PingPcs ==
    {"ping_select_lock", "ping_select", "ping_next", "ping_run",
     "ping_update_lock", "ping_update"}

\* C7: when a POST /ping-now call is over, every row that was in the table
\* when the call began has last_status OK or ERROR and a last_ping_at that
\* is not NULL, whatever the probes of the cycle came to.
C7_ProbeNowSetsStatus ==
    [][\A t \in Handlers :
          pc[t] \in PingPcs /\ pc'[t] \notin PingPcs =>
             \A i \in 1..frame[t].rows_before :
                /\ table'[i].last_status \in {OK, ERROR}
                /\ table'[i].last_ping_at # None]_vars

\* C8: run_ping never raises: whatever the ping process does, the cycle goes
\* on to store a pair (status, output), with status OK exactly when the
\* process ended with code 0 and with an output that is not empty when the
\* status is ERROR.
C8_ProbeNeverRaises ==
    [][\A t \in Handlers :
          pc[t] = "ping_run" =>
             \A proc \in ProbeProcs :
                run_ping(t, proc) =>
                   /\ pc'[t] = "ping_update_lock"
                   /\ frame'[t].status =
                         IF proc.kind = "completed" /\ proc.returncode = 0
                         THEN OK ELSE ERROR
                   /\ frame'[t].status = ERROR => frame'[t].output # <<>>]_vars

\* C9: a failure while one address is probed does not end the cycle: when
\* the cycle is over, every other address of its snapshot has been probed
\* and its result stored (the cycle has gone past it).
C9_FailureDoesNotAbortCycle ==
    [][\A t \in Handlers :
          pc[t] \in PingPcs /\ pc'[t] \notin PingPcs =>
             \A k \in 1..Len(frame[t].rows) :
                k # frame[t].row => k < frame[t].row]_vars

\* the rows of tbl that a listing under the filter token is to return
Wanted(tbl, token) ==
    {i \in 1..Len(tbl) :
        IF token = None THEN TRUE
        ELSE IF StartsWith(token, THIRD_OCTET_PREFIX)
        THEN /\ IpAddress(tbl[i].ip_address).version = 4
             /\ THIRD_OCTET_PREFIX \o DecStr(IpAddress(tbl[i].ip_address).groups[3])
                  = token
        ELSE infer_segment_24(tbl[i].ip_address) = token}

\* the tokens of the listings: none, third-octet tokens and /24 networks
TokensAreAsExpected ==
    /\ normalize_segment_filter(F_56) = THIRD_OCTET_PREFIX \o <<"5", "6">>
    /\ None \in ListFilters
    /\ F_cidr59 \in ListFilters
    /\ \E token \in ListFilters : StartsWith(token, THIRD_OCTET_PREFIX)

\* C10: get_rows with a THIRD_OCTET:n token returns exactly the rows whose
\* address is IPv4 with third octet n (never an IPv6 row), with a CIDR token
\* exactly the rows whose /24 segment is the token, and with no filter every
\* row; each row once, with the columns of the table; and
\* normalize_segment_filter("56/24") is THIRD_OCTET:56.
C10_ListFilter ==
    [][pc["h2"] = "rows_select" /\ pc'["h2"] # "rows_select" =>
          LET token == frame["h2"].segment_filter
              value == ret'["h2"].value
              wanted == Wanted(table, token)
          IN  /\ TokensAreAsExpected
              /\ ret'["h2"].op = "get_rows"
              /\ Len(value) = Cardinality(wanted)
              /\ \A i \in wanted :
                    \E k \in 1..Len(value) :
                       /\ value[k].ip_address = table[i].ip_address
                       /\ value[k].segment = infer_segment_24(table[i].ip_address)
                       /\ \A col \in DOMAIN Selected(table[i]) :
                             value[k][col] = Selected(table[i])[col]]_vars

\* C10 happens: with 192.168.59.20 and then 192.168.56.10 registered, a
\* listing returned the row of 192.168.56.10 alone
C10_Witness ==
    /\ Len(table) = 2
    /\ table[1].ip_address = Ip_192_168_59_20
    /\ table[2].ip_address = Ip_192_168_56_10
    /\ ret["h2"].op = "get_rows"
    /\ Len(ret["h2"].value) = 1
    /\ ret["h2"].value[1].ip_address = Ip_192_168_56_10

\* a thread is inside a with _db_lock block, about to read or write the table
InStore ==
    {"register_insert", "update_body", "rows_select", "row_select",
     "segments_select", "ping_select", "ping_update"}

\* C11: at most one thread, handler or scheduler, is inside a store
\* operation, and it holds the lock; and the table changes only in a step of
\* the thread that is inside a store operation holding the lock.
C11_MutualExclusion ==
    /\ [](/\ \A t \in Threads : pc[t] \in InStore => db_lock = t
          /\ Cardinality({t \in Threads : pc[t] \in InStore}) <= 1)
    /\ [][table' # table =>
             /\ db_lock \in Threads
             /\ pc[db_lock] \in InStore
             /\ pc'[db_lock] # pc[db_lock]
             /\ \A t \in Threads \ {db_lock} : pc'[t] = pc[t]]_vars

\* C11 happens: a handler is inside an update while the other handler and
\* the scheduler wait for the lock
C11_Witness ==
    /\ db_lock = "h1"
    /\ pc["h1"] = "update_body"
    /\ pc["h2"] = "rows_lock"
    /\ pc[Scheduler] = "ping_update_lock"
    /\ Len(table) = 1

\* C12: once the stop event is set the scheduler begins no cycle, and its
\* thread ends: a scheduler in stop_event.wait is woken by the event (no
\* step here waits for the interval to elapse) and leaves the loop, and a
\* scheduler in a cycle leaves the loop at the next test of line 437 (or
\* has been ended before by an exception of the cycle).
C12_StopEndsScheduler ==
    /\ [][stop_event /\ pc'[Scheduler] = "ping_select_lock"
             => pc[Scheduler] = "ping_select_lock"]_vars
    /\ [][stop_event /\ pc[Scheduler] = "scheduler_wait" /\ pc'[Scheduler] # pc[Scheduler]
             => pc'[Scheduler] = "scheduler_loop"]_vars
    /\ [][stop_event /\ pc[Scheduler] = "scheduler_loop" /\ pc'[Scheduler] # pc[Scheduler]
             => pc'[Scheduler] = "exited"]_vars
    /\ stop_event ~> pc[Scheduler] \in {"exited", "crashed"}
    /\ (stop_event /\ pc[Scheduler] \in PingPcs) ~>
          (pc[Scheduler] \in {"exited", "crashed"})
    /\ (stop_event /\ pc[Scheduler] = "scheduler_wait") ~> (pc[Scheduler] = "exited")

\* C12 happens: the scheduler has probed an address and, the stop event
\* set, has left its loop
C12_Witness ==
    /\ stop_event
    /\ pc[Scheduler] = "exited"
    /\ Len(table) >= 1
    /\ table[1].last_status = OK

\* the enumeration as the specification names it, and as the program does
EnumerationOfSpec ==
    {<<"N", "O", "T", "E", "B", "O", "O", "K">>, <<"D", "E", "S", "K", "T", "O", "P">>,
     <<"S", "E", "R", "V", "E", "R">>, T_PRINTER, <<"R", "O", "U", "T", "E", "R">>,
     T_OTHER}
EnumerationOfProgram ==
    {<<"N", "O", "T", "E", "B", "O", "O", "K">>, <<"D", "E", "S", "K", "T", "O", "P">>,
     <<"S", "E", "R", "V", "E", "R">>, <<"I", "M", "P", "R", "E", "S", "O", "R", "A">>,
     <<"R", "O", "U", "T", "E", "R">>, <<"O", "T", "R", "O">>}

\* after every step, the host_type of every row is NULL or in the
\* enumeration, and a call of update_host_details with a member of the
\* enumeration is not refused for its host type
HostTypeIn(enumeration) ==
    /\ \A i \in 1..Len(table') : table'[i].host_type \in {None} \cup enumeration
    /\ pc["h1"] = "idle" =>
          \A ip \in TypeIps, host_type \in enumeration :
             update_host_details("h1", ip, S_INF, host_type, <<>>, <<>>, <<>>)
                => pc'["h1"] = "update_lock"
    /\ pc["h1"] = "update_body" /\ frame["h1"].host_type \in enumeration
          => ret'["h1"].value # <<FALSE, MSG_BAD_TYPE>>

\* C13, as stated: host_type is always NULL or one of NOTEBOOK, DESKTOP,
\* SERVER, PRINTER, ROUTER, OTHER, and update_host_details accepts each of
\* the six.
C13_HostTypeInSpecEnumeration == [][HostTypeIn(EnumerationOfSpec)]_vars

\* C13, amended: host_type is always NULL or one of NOTEBOOK, DESKTOP,
\* SERVER, IMPRESORA, ROUTER, OTRO, and update_host_details accepts each of
\* the six.
C13_HostTypeInEnumeration == [][HostTypeIn(EnumerationOfProgram)]_vars

\* C13 happens: one row holds the fourth option and another the last, both
\* stored by updates
C13_Witness ==
    /\ Len(table) = 2
    /\ table[1].host_type = <<"I", "M", "P", "R", "E", "S", "O", "R", "A">>
    /\ table[2].host_type = <<"O", "T", "R", "O">>
    /\ ret["h1"] = [op |-> "update_host_details", value |-> <<TRUE, MSG_UPDATED>>]

\* the three columns a probe writes, of a row of the table or of a result
ProbeFields(r) == <<r.last_ping_at, r.last_status, r.last_output>>

\* all three are NULL, or none is and the status is OK or ERROR
AllOrNone(r) ==
    \/ ProbeFields(r) = <<None, None, None>>
    \/ /\ r.last_ping_at # None
       /\ r.last_status \in {OK, ERROR}
       /\ r.last_output # None

\* C14: in every row, last_ping_at, last_status and last_output are all NULL
\* (as register_ip leaves them) or all set, and they change only together,
\* by the one UPDATE of a probe; the rows that get_rows and get_ip_row
\* return while a cycle runs show the three columns of a row as they are in
\* the table, all NULL or all set.
C14_ProbeFieldsTogether ==
    /\ [](\A i \in 1..Len(table) : AllOrNone(table[i]))
    /\ [](\A t \in Handlers :
             ret[t].op \in {"get_rows", "get_ip_row"} =>
                \A k \in 1..Len(ret[t].value) : AllOrNone(ret[t].value[k]))
    /\ [][\A i \in 1..Len(table') :
             IF i > Len(table)
             THEN ProbeFields(table'[i]) = <<None, None, None>>
             ELSE ProbeFields(table'[i]) # ProbeFields(table[i]) =>
                     \E t \in Threads :
                        /\ pc[t] = "ping_update"
                        /\ db_lock = t
                        /\ frame[t].rows[frame[t].row].id = table[i].id
                        /\ ProbeFields(table'[i])
                             = <<_now_iso, frame[t].status, frame[t].output>>
                        /\ AllOrNone(table'[i])
                        /\ table'[i].last_ping_at # None]_vars
    /\ [][\A t \in Handlers :
             pc[t] \in {"rows_select", "row_select"} /\ pc'[t] # pc[t] =>
                \A k \in 1..Len(ret'[t].value) :
                   \E i \in 1..Len(table) :
                      /\ table[i].ip_address = ret'[t].value[k].ip_address
                      /\ ProbeFields(ret'[t].value[k]) = ProbeFields(table[i])]_vars

\* C14 happens: while a cycle is at its second address, a listing has
\* returned the first row with all three columns set (the output an empty
\* string) and the second with all three NULL
C14_Witness ==
    /\ pc["h1"] = "ping_run"
    /\ frame["h1"].row = 2
    /\ ret["h2"].op = "get_rows"
    /\ Len(ret["h2"].value) = 2
    /\ \E k \in 1..2 :
          /\ ret["h2"].value[k].last_status = OK
          /\ ret["h2"].value[k].last_output = <<>>
          /\ ProbeFields(ret["h2"].value[3 - k]) = <<None, None, None>>

\* the columns update_host_details owns, those a probe owns, and the rest
MetadataFields(r) == <<r.alias, r.host_name, r.host_type, r.location, r.notes>>
ReachabilityFields(r) == <<r.hostname, r.last_ping_at, r.last_status, r.last_output>>
KeyFields(r) == <<r.id, r.ip_address, r.created_at>>

\* C15: the write of a probe result leaves every row but the probed one as
\* it was and, of the probed row, changes nothing but hostname,
\* last_ping_at, last_status and last_output; the write of
\* update_host_details leaves every row but the one of its address as it
\* was and, of that row, changes nothing but alias, host_name, host_type,
\* location and notes.  So neither write undoes the other, however the two
\* operations interleave.
C15_FieldOwnership ==
    [][\A t \in Threads :
          /\ pc[t] = "ping_update" /\ pc'[t] # pc[t] =>
                /\ Len(table') = Len(table)
                /\ \A i \in 1..Len(table) :
                      /\ MetadataFields(table'[i]) = MetadataFields(table[i])
                      /\ KeyFields(table'[i]) = KeyFields(table[i])
                      /\ table[i].id # frame[t].rows[frame[t].row].id
                            => table'[i] = table[i]
          /\ pc[t] = "update_body" /\ pc'[t] # pc[t] =>
                /\ Len(table') = Len(table)
                /\ \A i \in 1..Len(table) :
                      /\ ReachabilityFields(table'[i]) = ReachabilityFields(table[i])
                      /\ KeyFields(table'[i]) = KeyFields(table[i])
                      /\ table[i].ip_address # frame[t].ip_address
                            => table'[i] = table[i]]_vars

\* C15 happens: an update of a row holds the lock while the scheduler waits
\* to write its probe result of the same row, which an earlier cycle and an
\* earlier update have written
C15_Witness ==
    /\ pc["h1"] = "update_body"
    /\ pc[Scheduler] = "ping_update_lock"
    /\ \E i \in 1..Len(table) :
          /\ table[i].ip_address = frame["h1"].ip_address
          /\ table[i].id = frame[Scheduler].rows[frame[Scheduler].row].id
          /\ table[i].last_status = OK
          /\ table[i].host_type = HOST_TYPE_OPTIONS[1]

\* C16: no step removes a row, and no step changes the ip_address or the
\* created_at of a row (rows are told apart by their place in the table and
\* by their id, which no step changes either)
C16_RowsAreKept ==
    [][/\ Len(table') >= Len(table)
       /\ \A i \in 1..Len(table) :
             /\ table'[i].id = table[i].id
             /\ table'[i].ip_address = table[i].ip_address
             /\ table'[i].created_at = table[i].created_at]_vars

\* C16 happens: a row registered at an earlier time has since been edited and
\* probed, and another row has been registered after it
C16_Witness ==
    /\ Len(table) = 2
    /\ table[1].created_at # _now_iso
    /\ table[1].host_type = HOST_TYPE_OPTIONS[1]
    /\ table[1].last_status = OK
    /\ table[1].created_at # table[2].created_at

\* the row of the snapshot a cycle is at
SnapshotRow(t) == frame[t].rows[frame[t].row]

\* C17: a cycle reads its snapshot once, at its start, and goes through it
\* in order and one address at a time: the snapshot does not change once
\* taken; the cycle starts at the first row and moves on only by one row,
\* in the step that stores the result of the row it is at (hostname,
\* time, status, output); only rows of the snapshot are written; and when
\* the cycle is over it has reached every row of its snapshot, so that each
\* was probed exactly once.
C17_SnapshotOrder ==
    [][\A t \in Threads :
          /\ pc[t] = "ping_select" /\ pc'[t] # pc[t] =>
                /\ frame'[t].rows = [i \in 1..Len(table) |->
                                       [id |-> table[i].id,
                                        ip_address |-> table[i].ip_address]]
                /\ frame'[t].row = 1
          /\ pc[t] \in PingPcs \ {"ping_select_lock", "ping_select"}
             /\ pc'[t] \in PingPcs =>
                /\ frame'[t].rows = frame[t].rows
                /\ frame'[t].row \in {frame[t].row, frame[t].row + 1}
                /\ frame'[t].row # frame[t].row =>
                      /\ pc[t] = "ping_update"
                      /\ \E i \in 1..Len(table) :
                            /\ table[i].id = SnapshotRow(t).id
                            /\ table'[i].hostname = frame[t].hostname
                            /\ table'[i].last_status = frame[t].status
                            /\ table'[i].last_output = frame[t].output
                            /\ table'[i].last_ping_at = _now_iso
                /\ pc'[t] = "ping_run" => frame[t].row \in 1..Len(frame[t].rows)
          /\ pc[t] = "ping_update" /\ pc'[t] # pc[t] =>
                \A i \in 1..Len(table) :
                   table'[i] # table[i] =>
                      /\ table[i].id = SnapshotRow(t).id
                      /\ table[i].ip_address = SnapshotRow(t).ip_address
          /\ pc[t] \in PingPcs /\ pc'[t] \notin PingPcs =>
                frame[t].row >= Len(frame[t].rows)]_vars

\* the zero hextets that follow each other from place i on
ZeroRun(groups, i) ==
    SetMax({n \in 0..(Len(groups) - i + 1) : \A k \in i..(i + n - 1) : groups[k] = 0})

\* the canonical text of a parsed address: decimal octets between dots, or
\* lower-case hextets without leading zeros between colons, the first of the
\* longest runs of two or more zero hextets written "::"
CanonicalText(address) ==
    IF address.version = 4
    THEN Join([i \in 1..4 |-> DecStr(address.groups[i])], ".")
    ELSE CHOOSE text \in
            {IF best < 2
             THEN Join([i \in 1..8 |-> HexStr(address.groups[i])], ":")
             ELSE CHOOSE compressed \in
                     {Join([i \in 1..(start - 1) |-> HexStr(address.groups[i])], ":")
                      \o <<":", ":">>
                      \o Join([i \in 1..(9 - start - best) |->
                                  HexStr(address.groups[start + best - 1 + i])], ":") :
                         start \in {SetMin({i \in 1..8 :
                                              ZeroRun(address.groups, i) = best})}} : TRUE :
                best \in {SetMax({ZeroRun(address.groups, i) : i \in 1..8})}} : TRUE

\* C18: every stored ip_address is the canonical text of the address it
\* spells, so no two rows spell the same address; and a registration whose
\* text spells an address the table holds is refused as a duplicate and
\* leaves the table as it was.
C18_CanonicalAddresses ==
    /\ [](\A i \in 1..Len(table) :
             /\ table[i].ip_address = CanonicalText(IpAddress(table[i].ip_address))
             /\ \A k \in 1..Len(table) :
                   IpAddress(table[i].ip_address) = IpAddress(table[k].ip_address)
                      => i = k)
    /\ [][\A t \in Handlers :
             /\ pc[t] = "register_insert"
             /\ pc'[t] # pc[t]
             /\ \E i \in 1..Len(table) :
                   IpAddress(table[i].ip_address) = IpAddress(frame[t].ip_address)
             => /\ table' = table
                /\ ret'[t].value = <<FALSE, MSG_DUPLICATE>>]_vars

\* C19: what is stored for an address is the result of the probe of it that
\* completed last, also when cycles overlap.  Over SpecOverlap a probe that
\* found the host down completed after every probe that found it up, so a
\* stored ERROR is never replaced by OK.
C19_LatestProbeWins ==
    [][\A i \in 1..Len(table) :
          table[i].last_status = ERROR => table'[i].last_status = ERROR]_vars

\* C20: while the stop event is not set the scheduler thread is alive,
\* whatever the probes of its cycles came to, and every row of the table
\* gets a last_status sooner or later (or the stop event is set first):
\* also the rows registered while a cycle runs, which a later cycle probes.
C20_SchedulerKeepsProbing ==
    /\ [](pc[Scheduler] \in {"exited", "crashed"} => stop_event)
    /\ \A i \in 1..MaxRows :
          (Len(table) >= i)
             ~> (stop_event \/ (Len(table) >= i /\ table[i].last_status # None))

\* a name resolution or a ping process of the thread is in flight
Probing == {"ping_next", "ping_run"}

\* a request waits to enter its with _db_lock block
RequestWaits == {"register_lock", "update_lock", "rows_lock", "row_lock", "segments_lock"}

\* C21: a thread whose name resolution or ping is in flight does not hold
\* the lock; a thread in a cycle holds it only inside the snapshot read and
\* inside the write of one result, and gives it back in the step that ends
\* either; so a register, edit, list or lookup request that waits for the
\* lock gets it and comes to its end, with nothing assumed of how long a
\* resolution or a ping takes.
C21_LockNotHeldWhileProbing ==
    /\ [](\A t \in Threads :
             /\ pc[t] \in Probing => db_lock # t
             /\ pc[t] \in PingPcs /\ db_lock = t => pc[t] \in {"ping_select", "ping_update"})
    /\ [][\A t \in Threads :
             pc[t] \in {"ping_select", "ping_update"} /\ pc'[t] # pc[t]
                => db_lock' = "free"]_vars
    /\ (pc["h1"] \in RequestWaits) ~> (pc["h1"] = "idle")

\* C21 happens: the first address of the scheduler's snapshot is being
\* pinged, the other cycle waits for a name, and the edit request of h1 has
\* the lock, which it took after the snapshot was read
C21_Witness ==
    /\ pc[Scheduler] = "ping_run"
    /\ frame[Scheduler].row = 1
    /\ Len(frame[Scheduler].rows) = 1
    /\ pc["h2"] = "ping_next"
    /\ frame["h2"].row = 1
    /\ Len(frame["h2"].rows) = 1
    /\ pc["h1"] = "update_body"
    /\ db_lock = "h1"

=============================================================================
